---- MODULE Spec2Model ----
(***************************************************************************)
(* Model of gitoxide's multi-pack index writer                             *)
(* (git-pack/src/multi_index/write.rs, File::write_from_index_paths) and   *)
(* of the index header decoder (git-index/src/decode.rs, header::decode    *)
(* and State::from_bytes).                                                 *)
(*                                                                         *)
(* Value representations:                                                  *)
(*   - a byte is an integer 0..255, a byte string a sequence of bytes;     *)
(*   - an ObjectId is its 20 bytes, ordered byte-lexicographically;        *)
(*   - a PathBuf is the sequence of the std::path::Components it iterates  *)
(*     as (RootDir, CurDir, ParentDir or Normal with its bytes); std's Ord *)
(*     for paths compares these, component by component;                   *)
(*   - a u64 pack offset is its 8 big-endian bytes (the model checker's    *)
(*     integers are 32 bits wide, the offsets of interest are not);        *)
(*   - a SystemTime is an integer, UNIX_EPOCH is 0.                        *)
(***************************************************************************)
EXTENDS Integers, Sequences, FiniteSets, TLC

VARIABLES
    \* ---- write_from_index_paths ----
    index_paths,        \* Vec<PathBuf>: the argument, sorted in place
    index_filenames,    \* index_filenames_sorted
    entries,            \* Vec<Entry> being collected, then sorted and deduplicated
    collected,          \* the index files read (mtime, objects), kept until planning starts
    should_interrupt,   \* the AtomicBool
    pc,                 \* position in write_from_index_paths
    index_id,           \* loop counter of the collection loop
    cf,                 \* git_chunk::file::Index: the planned chunks
    num_large_offsets,  \* Option<usize>: <<>> is None, <<n>> is Some(n)
    chunk_idx,          \* number of chunks next_chunk() has yielded and that were written
    out,                \* the raw output sink: one record per write
    hash,               \* state of the hash accumulator of hash::Write
    result,             \* what the call returned
    \* ---- State::from_bytes ----
    data,               \* the byte buffer
    timestamp,          \* the FileTime argument
    dpc,                \* position in from_bytes
    dheader,            \* what header::decode returned
    extensions,         \* signatures the extension iterator still has to yield
    dresult             \* what from_bytes returned

wvars == <<index_paths, index_filenames, entries, collected, should_interrupt, pc,
           index_id, cf, num_large_offsets, chunk_idx, out, hash, result>>
dvars == <<data, timestamp, dpc, dheader, extensions, dresult>>
vars == <<wvars, dvars>>

----------------------------------------------------------------------------
(* Bounds of the model *)

\* At most this many index paths are passed to write_from_index_paths.
MaxIndices == 2

----------------------------------------------------------------------------
(* Bytes and integers *)

Byte == 0..255

Zeros(n) == [i \in 1..n |-> 0]

\* u32::to_be_bytes, as WriteBytesExt::write_u32::<BigEndian> writes it (n < 2^31).
BE32(n) == << (n \div 16777216) % 256, (n \div 65536) % 256, (n \div 256) % 256, n % 256 >>

\* u64 big-endian, for values below 2^31.
BE64(n) == Zeros(4) \o BE32(n)

\* crate::util::read_u32: big-endian u32 from 4 bytes. The value is kept as the
\* pair <<upper 16 bits, lower 16 bits>> so that all 2^32 values are distinguished.
read_u32(b) == << b[1] * 256 + b[2], b[3] * 256 + b[4] >>

RECURSIVE Flatten(_)
Flatten(ss) == IF ss = <<>> THEN <<>> ELSE Head(ss) \o Flatten(Tail(ss))

\* Ordering::cmp of two byte strings: -1, 0 or 1 (slice comparison is lexicographic).
RECURSIVE BytesCmp(_, _)
BytesCmp(a, b) ==
    IF a = <<>> /\ b = <<>> THEN 0
    ELSE IF a = <<>> THEN -1
    ELSE IF b = <<>> THEN 1
    ELSE IF Head(a) < Head(b) THEN -1
    ELSE IF Head(a) > Head(b) THEN 1
    ELSE BytesCmp(Tail(a), Tail(b))

\* Integer comparison as Ordering.
IntCmp(a, b) == IF a < b THEN -1 ELSE IF a > b THEN 1 ELSE 0

\* std::path::Component on Unix: <<variant, bytes>>. The variants are ordered as
\* the enum declares them (RootDir < CurDir < ParentDir < Normal); only Normal
\* carries bytes. Iterating a path yields RootDir for a leading "/", CurDir for a
\* leading "." only (other "." components are skipped), ParentDir for every "..".
RootDir == << 1, <<>> >>
CurDir == << 2, <<>> >>
ParentDir == << 3, <<>> >>
Normal(name) == << 4, name >>

IsNormal(c) == c[1] = 4

\* The derived Ord of Component: the variant first, then the bytes of a Normal.
ComponentCmp(c, d) ==
    IF c[1] # d[1] THEN IntCmp(c[1], d[1]) ELSE BytesCmp(c[2], d[2])

\* Ord for Path: compares the components, one by one.
RECURSIVE PathCmp(_, _)
PathCmp(p, q) ==
    IF p = <<>> /\ q = <<>> THEN 0
    ELSE IF p = <<>> THEN -1
    ELSE IF q = <<>> THEN 1
    ELSE LET c == ComponentCmp(Head(p), Head(q))
         IN IF c # 0 THEN c ELSE PathCmp(Tail(p), Tail(q))

----------------------------------------------------------------------------
(* Inputs *)

\* git_hash::Kind::Sha1.len_in_bytes()
HashLen == 20

\* Object ids: 20 bytes, chosen so that first bytes coincide and differ.
OidOf(b1, b2) == <<b1, b2>> \o Zeros(HashLen - 2)
Oids == { OidOf(0, 7), OidOf(171, 1) }

\* 0x7fffffff and 0x80000001 as u64, big-endian.
OffsetSmall == <<0, 0, 0, 0, 127, 255, 255, 255>>
OffsetLarge == <<0, 0, 0, 0, 128, 0, 0, 1>>
Offsets == { OffsetSmall, OffsetLarge }

\* SystemTime::UNIX_EPOCH and one later time.
UNIX_EPOCH == 0
Mtimes == { UNIX_EPOCH, 1 }

\* Paths of index files: "./z", "b/a", "a/a" and "a/..", which has no file name.
Paths == { << CurDir, Normal(<<122>>) >>,
           << Normal(<<98>>), Normal(<<97>>) >>,
           << Normal(<<97>>), Normal(<<97>>) >>,
           << Normal(<<97>>), ParentDir >> }

\* The argument: a list of different paths, in any order.
PathLists ==
    { s \in UNION { [1..n -> Paths] : n \in 0..MaxIndices } :
        \A i, j \in 1..Len(s) : s[i] = s[j] => i = j }

\* What an index file can hold: for each object id, absent or present at an offset.
\* index.iter() yields the objects in ascending id order.
RECURSIVE SeqOfSet(_)
SeqOfSet(S) ==
    IF S = {} THEN <<>>
    ELSE LET m == CHOOSE x \in S : \A y \in S : BytesCmp(x.oid, y.oid) <= 0
         IN <<m>> \o SeqOfSet(S \ {m})

IndexContents ==
    { SeqOfSet({ [oid |-> o, pack_offset |-> f[o]] : o \in D }) :
        f \in [Oids -> Offsets], D \in SUBSET Oids }

----------------------------------------------------------------------------
(* Collection, sort and deduplication: write.rs lines 74-126 *)

\* Path::file_name(): the bytes of the last component if it is a Normal one,
\* else None. <<>> is None, <<name>> is Some(name).
file_name(p) ==
    IF p # <<>> /\ IsNormal(p[Len(p)]) THEN << p[Len(p)][2] >> ELSE <<>>

\* .expect("file name present") panics on None.
HasFileName(p) == file_name(p) # <<>>

\* Vec::sort on the paths (stable insertion sort; Ord for PathBuf).
RECURSIVE InsertPath(_, _)
InsertPath(p, s) ==
    IF s = <<>> THEN <<p>>
    ELSE IF PathCmp(p, Head(s)) < 0 THEN <<p>> \o s
    ELSE <<Head(s)>> \o InsertPath(p, Tail(s))

RECURSIVE SortPathsFrom(_, _)
SortPathsFrom(s, acc) ==
    IF s = <<>> THEN acc ELSE SortPathsFrom(Tail(s), InsertPath(Head(s), acc))

SortPaths(s) == SortPathsFrom(s, <<>>)

\* index_paths.iter().map(|p| PathBuf::from(p.file_name()...)).collect()
FileNames(s) == [i \in 1..Len(s) |-> << Normal(file_name(s[i])[1]) >>]

\* The Entry made of one object of index number id.
MakeEntry(e, id, mtime) ==
    [id |-> e.oid, pack_index |-> id, pack_offset |-> e.pack_offset, index_mtime |-> mtime]

\* entries.extend(index.iter().map(...))
ExtendEntries(es, content, id, mtime) ==
    es \o [i \in 1..Len(content) |-> MakeEntry(content[i], id, mtime)]

\* Faulty variant of EntryCmp: the order of the mtimes is not reversed.
EntryCmpMtimeAscending(l, r) ==
    LET c1 == BytesCmp(l.id, r.id)
        c2 == IntCmp(l.index_mtime, r.index_mtime)
        c3 == IntCmp(l.pack_index, r.pack_index)
    IN IF c1 # 0 THEN c1 ELSE IF c2 # 0 THEN c2 ELSE c3

\* The comparator of entries.sort_by: id, then mtime reversed, then pack_index.
EntryCmp(l, r) ==
    LET c1 == BytesCmp(l.id, r.id)
        c2 == - IntCmp(l.index_mtime, r.index_mtime)
        c3 == IntCmp(l.pack_index, r.pack_index)
    IN IF c1 # 0 THEN c1 ELSE IF c2 # 0 THEN c2 ELSE c3

\* Vec::sort_by: a stable sort.
RECURSIVE InsertEntry(_, _)
InsertEntry(e, s) ==
    IF s = <<>> THEN <<e>>
    ELSE IF EntryCmp(e, Head(s)) < 0 THEN <<e>> \o s
    ELSE <<Head(s)>> \o InsertEntry(e, Tail(s))

RECURSIVE SortEntriesFrom(_, _)
SortEntriesFrom(s, acc) ==
    IF s = <<>> THEN acc ELSE SortEntriesFrom(Tail(s), InsertEntry(Head(s), acc))

SortEntries(s) == SortEntriesFrom(s, <<>>)

\* Vec::dedup_by_key(|e| e.id): of every run of consecutive entries with the same
\* id, the first is kept.
RECURSIVE DedupFrom(_, _)
DedupFrom(s, acc) ==
    IF s = <<>> THEN acc
    ELSE IF acc # <<>> /\ acc[Len(acc)].id = Head(s).id THEN DedupFrom(Tail(s), acc)
    ELSE DedupFrom(Tail(s), Append(acc, Head(s)))

\* Faulty variant of DedupByKey: nothing is removed.
DedupKeepAll(s) == s

DedupByKey(s) == DedupFrom(s, <<>>)

\* Faulty variant of a poll of the flag: the flag is not looked at.
NeverInterrupted(flag) == FALSE

\* should_interrupt.load(Ordering::Relaxed) at the three places it is polled.
InterruptedAfterIndex(flag) == flag

InterruptedAfterDedup(flag) == flag

InterruptedAfterChunk(flag) == flag

----------------------------------------------------------------------------
(* git_features::hash::Write: the streaming hash accumulator *)

\* The state of the accumulator is kept as the bytes fed to it so far; the value
\* the hasher has computed from them is HashValue.
HashInit == <<>>

HashModulus == 32749
HashBase == 31

\* Feeding bytes[lo..hi] (lo <= hi) to the accumulator maps state h to
\* (h * r[2] + r[1]) % HashModulus; r is computed by halving the range.
RECURSIVE HashRange(_, _, _)
HashRange(bytes, lo, hi) ==
    IF lo = hi THEN << (bytes[lo] + 1) % HashModulus, HashBase >>
    ELSE LET mid == (lo + hi) \div 2
             l == HashRange(bytes, lo, mid)
             r == HashRange(bytes, mid + 1, hi)
         IN << (l[1] * r[2] + r[1]) % HashModulus, (l[2] * r[2]) % HashModulus >>

\* hasher.update(bytes): the accumulator takes the bytes, in order.
HashUpdate(h, bytes) == h \o bytes

\* The value of the hasher: v := v * HashBase + byte + 1, modulo HashModulus, byte
\* after byte, from 0.
HashValue(h) == IF h = <<>> THEN 0 ELSE HashRange(h, 1, Len(h))[1]

\* hasher.digest(): an object id, as wide as the hash kind's ids.
Digest(h) == BE32(HashValue(h)) \o Zeros(HashLen - 4)

----------------------------------------------------------------------------
(* multi_index::chunk: the five chunk kinds *)

PNAM == <<80, 78, 65, 77>>
OIDF == <<79, 73, 68, 70>>
OIDL == <<79, 73, 68, 76>>
OOFF == <<79, 79, 70, 70>>
LOFF == <<76, 79, 70, 70>>

KnownChunkIds == { PNAM, OIDF, OIDL, OOFF, LOFF }

\* index_names: every name NUL-terminated, the chunk padded to a multiple of 4 bytes.
RECURSIVE NamesBytes(_)
NamesBytes(names) ==
    IF names = <<>> THEN <<>>
    ELSE file_name(Head(names))[1] \o <<0>> \o NamesBytes(Tail(names))

Padding(n) == (4 - (n % 4)) % 4

index_names_storage_size(names) ==
    LET n == Len(NamesBytes(names)) IN n + Padding(n)

index_names_write(names) ==
    LET b == NamesBytes(names) IN b \o Zeros(Padding(Len(b)))

\* fanout: 256 cumulative counts, each a big-endian u32.
FanoutEntries == 256
fanout_SIZE == FanoutEntries * 4

FanoutCount(es, b) == Cardinality({ i \in 1..Len(es) : es[i].id[1] <= b })

fanout_write(es) ==
    LET counts == [b \in 0..(FanoutEntries - 1) |-> BE32(FanoutCount(es, b))]
    IN [i \in 1..fanout_SIZE |-> counts[(i - 1) \div 4][((i - 1) % 4) + 1]]

\* lookup: the ids, back to back.
lookup_storage_size(n) == n * HashLen

lookup_write(es) == Flatten([i \in 1..Len(es) |-> es[i].id])

\* A u64 offset (8 big-endian bytes) is large when it is greater than 0x7fffffff.
IsLargeOffset(o) == o[1] # 0 \/ o[2] # 0 \/ o[3] # 0 \/ o[4] # 0 \/ o[5] >= 128

\* Number of large offsets among the first n entries.
LargeBefore(es, n) == Cardinality({ i \in 1..n : IsLargeOffset(es[i].pack_offset) })

\* large_offsets::num_large_offsets: None (<<>>) when no offset is large.
large_offsets_num_large_offsets(es) ==
    IF LargeBefore(es, Len(es)) = 0 THEN <<>> ELSE << LargeBefore(es, Len(es)) >>

large_offsets_storage_size(n) == n * 8

\* large_offsets::write: the large offsets as big-endian u64, in entry order.
RECURSIVE LargeBytes(_)
LargeBytes(es) ==
    IF es = <<>> THEN <<>>
    ELSE (IF IsLargeOffset(Head(es).pack_offset) THEN Head(es).pack_offset ELSE <<>>)
         \o LargeBytes(Tail(es))

large_offsets_write(es, n) == LargeBytes(es)

\* offsets: per entry the pack index and a u32 that is the offset itself or, for a
\* large offset, 0x80000000 | its index among the large offsets.
offsets_storage_size(n) == n * 8

HighBit(b) == << b[1] + 128, b[2], b[3], b[4] >>

OffsetSlot(es, i, large_offsets_needed) ==
    LET o == es[i].pack_offset
    IN IF large_offsets_needed /\ IsLargeOffset(o)
       THEN HighBit(BE32(LargeBefore(es, i - 1)))
       ELSE SubSeq(o, 5, 8)

offsets_write(es, large_offsets_needed) ==
    Flatten([i \in 1..Len(es) |->
                BE32(es[i].pack_index) \o OffsetSlot(es, i, large_offsets_needed)])

----------------------------------------------------------------------------
(* git_chunk::file::Index: planning and the table of contents *)

\* 4 bytes of id and a u64 offset per table-of-contents record.
TocEntrySize == 12

plan_chunk(plan, id, size) == Append(plan, [id |-> id, size |-> size])

RECURSIVE PlannedSize(_)
PlannedSize(plan) == IF plan = <<>> THEN 0 ELSE Head(plan).size + PlannedSize(Tail(plan))

\* Offset of chunk k (1-based) in the file; k = Len(plan) + 1 gives the end.
ChunkStart(plan, k, header_len) ==
    header_len + (Len(plan) + 1) * TocEntrySize + PlannedSize(SubSeq(plan, 1, k - 1))

\* into_write: the table of contents, one record per chunk and a terminator with id 0.
TocBytes(plan, header_len) ==
    Flatten([k \in 1..Len(plan) |-> plan[k].id \o BE64(ChunkStart(plan, k, header_len))])
    \o Zeros(4) \o BE64(ChunkStart(plan, Len(plan) + 1, header_len))

----------------------------------------------------------------------------
(* write_from_index_paths: planning and writing, write.rs lines 128-223 *)

\* multi_index::File::HEADER_LEN
HEADER_LEN == 12

SIGNATURE == <<77, 73, 68, 88>>

\* multi_index::Version::V1 as u8, git_hash::Kind::Sha1 as u8
VersionV1 == 1
KindSha1 == 1

\* The bytes write_header writes.
write_header(num_chunks, num_indices) ==
    SIGNATURE \o <<VersionV1>> \o <<KindSha1>> \o <<num_chunks>> \o <<0>> \o BE32(num_indices)

\* Lines 128-141: the four chunks every file has.
PlanFixedChunks(names, es) ==
    plan_chunk(plan_chunk(plan_chunk(plan_chunk(<<>>,
        PNAM, index_names_storage_size(names)),
        OIDF, fanout_SIZE),
        OIDL, lookup_storage_size(Len(es))),
        OOFF, offsets_storage_size(Len(es)))

\* Faulty variants of PlanChunks: the large-offsets chunk is never planned, or is
\* planned first.
PlanChunksNeverLarge(names, es, nlo) == PlanFixedChunks(names, es)

PlanChunksLargeFirst(names, es, nlo) ==
    IF nlo # <<>>
    THEN << [id |-> LOFF, size |-> large_offsets_storage_size(nlo[1])] >>
         \o PlanFixedChunks(names, es)
    ELSE PlanFixedChunks(names, es)

\* Lines 128-149: the chunks in planning order; large offsets only when there are some.
PlanChunks(names, es, nlo) ==
    IF nlo # <<>>
    THEN plan_chunk(PlanFixedChunks(names, es), LOFF, large_offsets_storage_size(nlo[1]))
    ELSE PlanFixedChunks(names, es)

\* The match of lines 175-190: the bytes written for the chunk next_chunk() yielded.
\* <<-1>> stands for a panic (the unreachable!() arm, or expect() on None).
Panic == << -1 >>

ChunkBody(id, names, es, nlo) ==
    CASE id = PNAM -> index_names_write(names)
      [] id = OIDF -> fanout_write(es)
      [] id = OIDL -> lookup_write(es)
      [] id = OOFF -> offsets_write(es, nlo # <<>>)
      [] id = LOFF -> IF nlo = <<>> THEN Panic ELSE large_offsets_write(es, nlo[1])
      [] OTHER -> Panic

\* A failed write: the sink has taken any number of the bytes, but not all of
\* them, before a write call returned the error. Nothing is written for no bytes,
\* so that cannot fail.
PartialWrites(bytes) == { SubSeq(bytes, 1, n) : n \in 0..(Len(bytes) - 1) }

\* What the call returns.
Running == [kind |-> "running", multi_index_checksum |-> <<>>]
Err(kind) == [kind |-> kind, multi_index_checksum |-> <<>>]
Ok(checksum) == [kind |-> "Ok", multi_index_checksum |-> checksum]

----------------------------------------------------------------------------
(* write_from_index_paths as a state machine *)

\* The sink keeps, with the bytes of every write, which part of the file they are:
\* the header, the table of contents, a chunk (its id) or the trailer.
HeaderPart == <<"header">>
TocPart == <<"toc">>
TrailerPart == <<"trailer">>

\* A write through progress::Write and hash::Write to the sink: the hash observes
\* exactly the bytes the sink took.
Written(part, bytes) ==
    /\ out' = Append(out, [part |-> part, bytes |-> bytes])
    /\ hash' = HashUpdate(hash, bytes)

WriteFailed(part, bytes) ==
    \E w \in PartialWrites(bytes) :
        /\ out' = IF w = <<>> THEN out ELSE Append(out, [part |-> part, bytes |-> w])
        /\ hash' = HashUpdate(hash, w)
        /\ result' = Err("Io")
        /\ pc' = "done"

\* Faulty variant of TrailerHash: the trailer is written through the hash wrapper.
TrailerHashed(h, bytes) == HashUpdate(h, bytes)

\* Line 200 writes to out.inner.inner, below the hash wrapper: the hash does not
\* observe the trailer.
TrailerHash(h, bytes) == h

\* Line 199: the checksum is the digest of the accumulator.
multi_index_checksum == Digest(hash)

\* Faulty variant of TrailerError: the failed write is ignored.
TrailerErrorIgnored == Ok(multi_index_checksum)

\* Line 200: the ? propagates a failed write of the trailer.
TrailerError == Err("Io")

InitWrite ==
    /\ index_paths \in PathLists
    /\ index_filenames = <<>>
    /\ entries = <<>>
    /\ collected = <<>>
    /\ should_interrupt = FALSE
    /\ pc = "sort"
    /\ index_id = 0
    /\ cf = <<>>
    /\ num_large_offsets = <<>>
    /\ chunk_idx = 0
    /\ out = <<>>
    /\ hash = HashInit
    /\ result = Running

\* Another thread sets the flag, at any time.
SetInterrupt ==
    /\ pc # "done"
    /\ ~should_interrupt
    /\ should_interrupt' = TRUE
    /\ UNCHANGED <<index_paths, index_filenames, entries, collected, pc, index_id, cf,
                   num_large_offsets, chunk_idx, out, hash, result>>
    /\ UNCHANGED dvars

\* Lines 73-81.
SortIndexPaths ==
    /\ pc = "sort"
    /\ index_paths' = SortPaths(index_paths)
    /\ IF \A i \in 1..Len(index_paths) : HasFileName(index_paths[i])
       THEN /\ index_filenames' = FileNames(index_paths')
            /\ pc' = "collect"
            /\ UNCHANGED result
       ELSE /\ result' = Err("panic: file name present")
            /\ pc' = "done"
            /\ UNCHANGED index_filenames
    /\ UNCHANGED <<entries, collected, should_interrupt, index_id, cf, num_large_offsets,
                   chunk_idx, out, hash>>
    /\ UNCHANGED dvars

\* Lines 90-108, one iteration: the file's mtime and content are what the file
\* system holds; index::File::at may fail.
CollectIndex ==
    /\ pc = "collect"
    /\ index_id < Len(index_paths)
    /\ \/ /\ result' = Err("OpenIndex")
          /\ pc' = "done"
          /\ UNCHANGED <<entries, collected, index_id>>
       \/ \E mtime \in Mtimes, content \in IndexContents :
            /\ entries' = ExtendEntries(entries, content, index_id, mtime)
            /\ collected' = Append(collected, [mtime |-> mtime, content |-> content])
            /\ IF InterruptedAfterIndex(should_interrupt)
               THEN /\ result' = Err("Interrupted")
                    /\ pc' = "done"
                    /\ UNCHANGED index_id
               ELSE /\ index_id' = index_id + 1
                    /\ UNCHANGED <<result, pc>>
    /\ UNCHANGED <<index_paths, index_filenames, should_interrupt, cf, num_large_offsets,
                   chunk_idx, out, hash>>
    /\ UNCHANGED dvars

\* Lines 111-125.
SortAndDedup ==
    /\ pc = "collect"
    /\ index_id = Len(index_paths)
    /\ entries' = DedupByKey(SortEntries(entries))
    /\ IF InterruptedAfterDedup(should_interrupt)
       THEN /\ result' = Err("Interrupted")
            /\ pc' = "done"
       ELSE /\ pc' = "plan"
            /\ UNCHANGED result
    /\ UNCHANGED <<index_paths, index_filenames, collected, should_interrupt, index_id, cf,
                   num_large_offsets, chunk_idx, out, hash>>
    /\ UNCHANGED dvars

\* Lines 128-160.
Plan ==
    /\ pc = "plan"
    /\ num_large_offsets' = large_offsets_num_large_offsets(entries)
    /\ cf' = PlanChunks(index_filenames, entries, num_large_offsets')
    /\ collected' = <<>>
    /\ pc' = "header"
    /\ UNCHANGED <<index_paths, index_filenames, entries, should_interrupt,
                   index_id, chunk_idx, out, hash, result>>
    /\ UNCHANGED dvars

\* Lines 162-167.
WriteHeader ==
    /\ pc = "header"
    /\ LET bytes == write_header(Len(cf), Len(index_paths))
       IN \/ /\ Written(HeaderPart, bytes)
             /\ pc' = "toc"
             /\ UNCHANGED result
          \/ WriteFailed(HeaderPart, bytes)
    /\ UNCHANGED <<index_paths, index_filenames, entries, collected, should_interrupt,
                   index_id, cf, num_large_offsets, chunk_idx>>
    /\ UNCHANGED dvars

\* Line 173: into_write writes the table of contents.
IntoWrite ==
    /\ pc = "toc"
    /\ LET bytes == TocBytes(cf, HEADER_LEN)
       IN \/ /\ Written(TocPart, bytes)
             /\ pc' = "chunks"
             /\ UNCHANGED result
          \/ WriteFailed(TocPart, bytes)
    /\ UNCHANGED <<index_paths, index_filenames, entries, collected, should_interrupt,
                   index_id, cf, num_large_offsets, chunk_idx>>
    /\ UNCHANGED dvars

\* Lines 174-195, one iteration: next_chunk() yields the planned ids in order.
WriteChunk ==
    /\ pc = "chunks"
    /\ chunk_idx < Len(cf)
    /\ LET id == cf[chunk_idx + 1].id
           bytes == ChunkBody(id, index_filenames, entries, num_large_offsets)
       IN IF bytes = Panic \/ Len(bytes) # cf[chunk_idx + 1].size
          THEN /\ result' = Err("panic")
               /\ pc' = "done"
               /\ UNCHANGED <<out, hash, chunk_idx>>
          ELSE \/ /\ Written(id, bytes)
                  /\ chunk_idx' = chunk_idx + 1
                  /\ IF InterruptedAfterChunk(should_interrupt)
                     THEN /\ result' = Err("Interrupted")
                          /\ pc' = "done"
                     ELSE UNCHANGED <<result, pc>>
               \/ /\ WriteFailed(id, bytes)
                  /\ UNCHANGED chunk_idx
    /\ UNCHANGED <<index_paths, index_filenames, entries, collected, should_interrupt,
                   index_id, cf, num_large_offsets>>
    /\ UNCHANGED dvars

\* Lines 198-206.
WriteTrailer ==
    /\ pc = "chunks"
    /\ chunk_idx = Len(cf)
    /\ pc' = "done"
    /\ \/ /\ out' = Append(out, [part |-> TrailerPart, bytes |-> multi_index_checksum])
          /\ hash' = TrailerHash(hash, multi_index_checksum)
          /\ result' = Ok(multi_index_checksum)
       \/ \E w \in PartialWrites(multi_index_checksum) :
            /\ out' = IF w = <<>> THEN out ELSE Append(out, [part |-> TrailerPart, bytes |-> w])
            /\ hash' = TrailerHash(hash, w)
            /\ result' = TrailerError
    /\ UNCHANGED <<index_paths, index_filenames, entries, collected, should_interrupt,
                   index_id, cf, num_large_offsets, chunk_idx>>
    /\ UNCHANGED dvars

----------------------------------------------------------------------------
(* git-index/src/decode.rs: header::decode *)

\* header::SIZE
SIZE == 12

DIRC == <<68, 73, 82, 67>>

TooSmall == "File is too small even for header with zero entries and smallest hash"
SignatureMismatch == "Signature mismatch - this doesn't claim to be a header file"

\* slice::split_at(n): the two halves.
SplitAt(b, n) == << SubSeq(b, 1, n), SubSeq(b, n + 1, Len(b)) >>

\* Faulty variant of VersionOf: every other version is taken for version 4.
VersionOfAcceptingAll(v) ==
    IF v = <<0, 2>> THEN "V2" ELSE IF v = <<0, 3>> THEN "V3" ELSE "V4"

\* The match of lines 41-46 on the version number: "" when not supported.
VersionOf(v) ==
    IF v = <<0, 2>> THEN "V2"
    ELSE IF v = <<0, 3>> THEN "V3"
    ELSE IF v = <<0, 4>> THEN "V4"
    ELSE ""

\* Lines 25-51.
header_decode(d, hash_len) ==
    IF Len(d) < (3 * 4) + hash_len
    THEN [kind |-> "Corrupt", message |-> TooSmall]
    ELSE LET s1 == SplitAt(d, 4)
         IN IF s1[1] # DIRC
            THEN [kind |-> "Corrupt", message |-> SignatureMismatch]
            ELSE LET s2 == SplitAt(s1[2], 4)
                     version == read_u32(s2[1])
                 IN IF VersionOf(version) = ""
                    THEN [kind |-> "UnsupportedVersion", version |-> version]
                    ELSE LET s3 == SplitAt(s2[2], 4)
                         IN [kind |-> "Ok", version |-> VersionOf(version),
                             entries |-> read_u32(s3[1]), data |-> s3[2]]

----------------------------------------------------------------------------
(* The extensions of an index file: signature, big-endian u32 size, payload.  *)
(* The end-of-index-entries extension is the last one before the trailing     *)
(* checksum; its payload is the offset at which the extensions start and a    *)
(* hash.                                                                      *)

EOIE == <<69, 79, 73, 69>>
TREE == <<84, 82, 69, 69>>
UNKN == <<85, 78, 75, 78>>

Extension(sig, payload) == sig \o BE32(Len(payload)) \o payload

EoieExtension(offset) == Extension(EOIE, BE32(offset) \o Zeros(HashLen))

\* extension::end_of_index_entry::decode: None (<<>>) or Some(offset) (<<offset>>).
end_of_index_entry_decode(d, hash_len) ==
    LET start == Len(d) - hash_len - (8 + 4 + hash_len)
    IN IF start < SIZE THEN <<>>
       ELSE IF SubSeq(d, start + 1, start + 4) # EOIE THEN <<>>
       ELSE LET o == read_u32(SubSeq(d, start + 9, start + 12))
            IN IF o[1] # 0 \/ o[2] > start THEN <<>> ELSE << o[2] >>

\* extension::Iter::new_without_checksum(&data[offset..]): the signatures of the
\* extensions from offset on, the trailing checksum left out.
RECURSIVE ExtensionSignatures(_, _, _)
ExtensionSignatures(d, pos, end) ==
    IF pos + 8 > end THEN <<>>
    ELSE LET size == read_u32(SubSeq(d, pos + 5, pos + 8))
         IN IF size[1] # 0 \/ pos + 8 + size[2] > end THEN <<>>
            ELSE << SubSeq(d, pos + 1, pos + 4) >>
                 \o ExtensionSignatures(d, pos + 8 + size[2], end)

----------------------------------------------------------------------------
(* Buffers given to State::from_bytes *)

HeaderBytes ==
    { sig \o version \o n :
        sig \in { DIRC, SIGNATURE, <<68, 73, 82, 68>> },
        version \in { BE32(1), BE32(2), BE32(3), BE32(4), BE32(5),
                      <<2, 0, 0, 0>>, <<0, 1, 0, 2>>, <<255, 255, 255, 254>> },
        n \in { BE32(0), BE32(1), <<255, 0, 0, 3>> } }

ExtensionLists ==
    { <<>>, Extension(TREE, <<1>>), Extension(UNKN, <<1, 2>>),
      Extension(UNKN, <<1, 2>>) \o Extension(TREE, <<1>>) }

\* What follows the header: entries (one byte each here), extensions, checksum.
Bodies ==
    { Zeros(HashLen), Zeros(HashLen + 1) }
    \cup { Zeros(1) \o x \o EoieExtension(SIZE + 1) \o Zeros(HashLen) : x \in ExtensionLists }

\* Whole files and truncated ones.
Truncations(b) == { SubSeq(b, 1, n) : n \in { 0, 3, SIZE - 1, SIZE, SIZE + HashLen - 1, Len(b) } }

Buffers == UNION { Truncations(h \o b) : h \in HeaderBytes, b \in Bodies }

Timestamps == { 0, 1 }

----------------------------------------------------------------------------
(* State::from_bytes as a state machine: decode.rs lines 73-95 *)

\* todo!() panics.
Todo(message) == [kind |-> "panic", message |-> message]

DecodeIdle ==
    /\ data = <<>>
    /\ timestamp = 0
    /\ dpc = "idle"
    /\ dheader = <<>>
    /\ extensions = <<>>
    /\ dresult = <<>>

InitDecode ==
    /\ data \in Buffers
    /\ timestamp \in Timestamps
    /\ dpc = "header"
    /\ dheader = <<>>
    /\ extensions = <<>>
    /\ dresult = <<>>

\* Line 74.
DecodeHeader ==
    /\ dpc = "header"
    /\ dheader' = header_decode(data, HashLen)
    /\ IF dheader'.kind = "Ok"
       THEN /\ dpc' = "end_of_index_entry"
            /\ UNCHANGED dresult
       ELSE /\ dpc' = "done"
            /\ dresult' = [kind |-> "Err", header |-> dheader']
    /\ UNCHANGED <<data, timestamp, extensions>>
    /\ UNCHANGED wvars

\* Lines 75-78 and 91.
DecodeEndOfIndexEntry ==
    /\ dpc = "end_of_index_entry"
    /\ LET start_of_extensions == end_of_index_entry_decode(data, HashLen)
       IN IF start_of_extensions # <<>>
          THEN /\ extensions' = ExtensionSignatures(data, start_of_extensions[1],
                                                    Len(data) - HashLen)
               /\ dpc' = "extensions"
               /\ UNCHANGED dresult
          ELSE /\ dresult' = Todo("load entries singlge-threaded, then extensions")
               /\ dpc' = "done"
               /\ UNCHANGED extensions
    /\ UNCHANGED <<data, timestamp, dheader>>
    /\ UNCHANGED wvars

\* Lines 79-88, one iteration.
DecodeExtension ==
    /\ dpc = "extensions"
    /\ extensions # <<>>
    /\ extensions' = Tail(extensions)
    /\ IF Head(extensions) = TREE
       THEN /\ dresult' = Todo("put tree somewhere")
            /\ dpc' = "done"
       ELSE UNCHANGED <<dresult, dpc>>
    /\ UNCHANGED <<data, timestamp, dheader>>
    /\ UNCHANGED wvars

\* Line 89.
DecodeAfterExtensions ==
    /\ dpc = "extensions"
    /\ extensions = <<>>
    /\ dresult' = Todo("load all extensions in thread, then get IEOT, then possibly multi-threaded entry parsing")
    /\ dpc' = "done"
    /\ UNCHANGED <<data, timestamp, dheader, extensions>>
    /\ UNCHANGED wvars

WriteIdle ==
    /\ index_paths = <<>>
    /\ index_filenames = <<>>
    /\ entries = <<>>
    /\ collected = <<>>
    /\ should_interrupt = FALSE
    /\ pc = "idle"
    /\ index_id = 0
    /\ cf = <<>>
    /\ num_large_offsets = <<>>
    /\ chunk_idx = 0
    /\ out = <<>>
    /\ hash = HashInit
    /\ result = Running

----------------------------------------------------------------------------
(* Specifications *)

\* One call of write_from_index_paths.
Init == InitWrite /\ DecodeIdle

Next ==
    \/ SetInterrupt
    \/ SortIndexPaths
    \/ CollectIndex
    \/ SortAndDedup
    \/ Plan
    \/ WriteHeader
    \/ IntoWrite
    \/ WriteChunk
    \/ WriteTrailer

Spec == Init /\ [][Next]_vars

\* One call of State::from_bytes.
DecodeInit == InitDecode /\ WriteIdle

DecodeNext ==
    \/ DecodeHeader
    \/ DecodeEndOfIndexEntry
    \/ DecodeExtension
    \/ DecodeAfterExtensions

DecodeSpec == DecodeInit /\ [][DecodeNext]_vars

----------------------------------------------------------------------------
(* Properties of write_from_index_paths *)

\* The objects of the opened index files: id, number of the index, its mtime.
Candidates ==
    UNION { { [id |-> collected[k].content[j].oid, pack_index |-> k - 1,
               index_mtime |-> collected[k].mtime] : j \in 1..Len(collected[k].content) } :
            k \in 1..Len(collected) }

CandidatesOf(id) == { c \in Candidates : c.id = id }

EntriesFinal == pc = "plan"

\* C1: of the objects with the same id in several input indices, the entry kept
\* after sort and dedup has the pack_index of the index with the latest
\* modification time; among the indices with that time, of the one with the
\* lexicographically earliest path, which is the smallest pack_index.
C1_DedupTieBreak ==
    EntriesFinal =>
        \A i \in 1..Len(entries) :
            LET e == entries[i]
                tied == { c \in CandidatesOf(e.id) : c.index_mtime = e.index_mtime }
            IN /\ [id |-> e.id, pack_index |-> e.pack_index, index_mtime |-> e.index_mtime]
                    \in Candidates
               /\ \A c \in CandidatesOf(e.id) : c.index_mtime <= e.index_mtime
               /\ \A c \in tied :
                    /\ e.pack_index <= c.pack_index
                    /\ PathCmp(index_paths[e.pack_index + 1], index_paths[c.pack_index + 1]) <= 0

\* An id is in both indices; the second index is the more recent one and wins, and
\* another id is in both indices with the same mtime, where the first one wins.
C1_Witness ==
    /\ EntriesFinal
    /\ Len(collected) = 2
    /\ \E i \in 1..Len(entries) :
        /\ Cardinality(CandidatesOf(entries[i].id)) = 2
        /\ collected[1].mtime < collected[2].mtime
        /\ entries[i].pack_index = 1

StrictlyAscending(es) ==
    \A i \in 1..(Len(es) - 1) : BytesCmp(es[i].id, es[i + 1].id) < 0

\* C2: after collect, sort and dedup the entry list is strictly ascending by
\* object id and holds exactly the ids that occur in some input index, each once;
\* the list the chunk writers get is that list.
C2_SortedUniqueEntries ==
    /\ EntriesFinal =>
        /\ StrictlyAscending(entries)
        /\ { entries[i].id : i \in 1..Len(entries) } = { c.id : c \in Candidates }
        /\ Len(entries) = Cardinality({ c.id : c \in Candidates })
    /\ pc \in { "header", "toc", "chunks" } => StrictlyAscending(entries)

\* Two indices with two objects each, both ids in both indices.
C2_Witness ==
    /\ EntriesFinal
    /\ Cardinality(Candidates) = 4
    /\ Len(entries) = 2

\* C3, as claimed: once the flag is set during the collection phase, the call
\* returns Interrupted, and nothing has been written.
C3_Original ==
    [][ (should_interrupt /\ pc = "collect") =>
            (pc' = "done" /\ result'.kind = "Interrupted" /\ out' = <<>>) ]_vars

\* C3, amended: once the flag is set during the collection phase, the call ends
\* with its next step and nothing has been written; it returns Interrupted,
\* unless the next input index cannot be opened, which returns OpenIndex.
C3_InterruptedDuringCollection ==
    [][ (should_interrupt /\ pc = "collect") =>
            /\ pc' = "done"
            /\ out' = <<>>
            /\ \/ result'.kind = "Interrupted"
               \/ result'.kind = "OpenIndex" /\ index_id < Len(index_paths) ]_vars

\* The flag was set after the first of two index files was processed.
C3_Witness ==
    /\ pc = "done"
    /\ result.kind = "Interrupted"
    /\ should_interrupt
    /\ Len(index_paths) >= 2
    /\ index_id = 1
    /\ Len(collected) = 2
    /\ out = <<>>

\* The whole trailer is the last thing in the sink.
TrailerWritten ==
    /\ out # <<>>
    /\ out[Len(out)].part = TrailerPart
    /\ Len(out[Len(out)].bytes) = HashLen

\* The header, the table of contents, every planned chunk in full and the trailer.
CompleteFile ==
    /\ Len(out) = Len(cf) + 3
    /\ out[1].part = HeaderPart /\ Len(out[1].bytes) = HEADER_LEN
    /\ out[2].part = TocPart /\ Len(out[2].bytes) = (Len(cf) + 1) * TocEntrySize
    /\ \A k \in 1..Len(cf) :
        out[k + 2].part = cf[k].id /\ Len(out[k + 2].bytes) = cf[k].size
    /\ TrailerWritten

\* C4: the trailer has been written if and only if the call returned success:
\* every error return leaves the output without trailer, no trailer is there while
\* the call runs, success comes with the complete file, and the flag found set
\* after a chunk was written (the last one too) ends the call with Interrupted.
C4_TrailerIffSuccess ==
    /\ [](/\ pc = "done" => (TrailerWritten <=> result.kind = "Ok")
          /\ pc # "done" => (~TrailerWritten /\ result = Running)
          /\ result.kind = "Ok" => CompleteFile)
    /\ [][ (pc = "chunks" /\ should_interrupt /\ chunk_idx' = chunk_idx + 1) =>
              (pc' = "done" /\ result'.kind = "Interrupted") ]_vars

\* The call failed while writing the trailer, after every chunk was written.
C4_Witness ==
    /\ pc = "done"
    /\ result.kind = "Io"
    /\ chunk_idx = Len(cf)
    /\ Len(out) = Len(cf) + 3
    /\ out[Len(out)].part = TrailerPart

\* All bytes the sink has taken before its last write.
BytesBeforeLast == Flatten([k \in 1..(Len(out) - 1) |-> out[k].bytes])

\* C5: on success the last bytes of the output are the digest of all bytes written
\* before them (header, table of contents and chunks, in order), the accumulator
\* has seen those bytes and not the trailer, and the checksum returned is the
\* trailer.
C5_ChecksumCoversFile ==
    result.kind = "Ok" =>
        /\ out[Len(out)].part = TrailerPart
        /\ \A k \in 1..(Len(out) - 1) : out[k].part # TrailerPart
        /\ out[Len(out)].bytes = Digest(HashUpdate(HashInit, BytesBeforeLast))
        /\ hash = HashUpdate(HashInit, BytesBeforeLast)
        /\ result.multi_index_checksum = out[Len(out)].bytes

\* A successful write of a file with five chunks.
C5_Witness ==
    /\ result.kind = "Ok"
    /\ Len(out) = 8
    /\ Len(entries) = 2

\* Names of the pack-name table (the file names, as byte strings).
Names == [k \in 1..Len(index_filenames) |-> file_name(index_filenames[k])[1]]

\* C6: the pack-name table holds unique names in lexicographic order, and the
\* pack_index of every entry is the position of its index's name in the table,
\* the order in which the indices were opened.
C6_NamesSortedUnique ==
    pc \notin { "sort" } =>
        /\ \A k \in 1..(Len(Names) - 1) : BytesCmp(Names[k], Names[k + 1]) < 0
        /\ \A k \in 1..Len(Names) : << Names[k] >> = file_name(index_paths[k])
        /\ \A i \in 1..Len(entries) : entries[i].pack_index \in 0..(Len(Names) - 1)

PlannedIds == [k \in 1..Len(cf) |-> cf[k].id]

Planned == pc \in { "header", "toc", "chunks", "done" } /\ cf # <<>>

\* The record of the sink that holds chunk id in full, if there is one.
ChunkWritten(id) ==
    \E k \in 1..Len(out) : \E j \in 1..Len(cf) :
        out[k].part = id /\ cf[j].id = id /\ Len(out[k].bytes) = cf[j].size

BodyOf(id) == LET at == CHOOSE k \in 1..Len(out) : out[k].part = id IN out[at].bytes

LargeEntries == { i \in 1..Len(entries) : entries[i].pack_offset = OffsetLarge }

\* C9: the large-offsets chunk is planned, and written, exactly when some entry
\* has an offset above 0x7fffffff; such an entry's slot has the high bit set and
\* holds the index of its offset in the large-offsets chunk, which holds these
\* offsets only, in entry order; an offset up to 0x7fffffff is stored as it is.
C9_LargeOffsets ==
    Planned =>
        /\ (\E j \in 1..Len(cf) : cf[j].id = LOFF) <=> LargeEntries # {}
        /\ result.kind = "Ok" => (ChunkWritten(LOFF) <=> LargeEntries # {})
        /\ ChunkWritten(OOFF) =>
            \A i \in 1..Len(entries) :
                LET slot == SubSeq(BodyOf(OOFF), 8 * i - 3, 8 * i)
                    index == << slot[1] - 128, slot[2], slot[3], slot[4] >>
                IN IF i \in LargeEntries
                   THEN /\ slot[1] >= 128
                        /\ index = BE32(Cardinality({ j \in LargeEntries : j < i }))
                        /\ ChunkWritten(LOFF) =>
                             SubSeq(BodyOf(LOFF), 8 * index[4] + 1, 8 * index[4] + 8)
                                = entries[i].pack_offset
                   ELSE slot = <<127, 255, 255, 255>>
        /\ ChunkWritten(LOFF) => Len(BodyOf(LOFF)) = 8 * Cardinality(LargeEntries)

\* A file was written with a small offset first and a large offset second.
C9_Witness ==
    /\ result.kind = "Ok"
    /\ Len(entries) = 2
    /\ entries[1].pack_offset = OffsetSmall
    /\ entries[2].pack_offset = OffsetLarge
    /\ ChunkWritten(LOFF)

\* C10: the chunks are planned and written in the order pack-names, fan-out,
\* lookup, offsets and, only when there are large offsets, large-offsets; each
\* once, after the header, whose num_chunks byte is the number of planned chunks,
\* 4 or 5; no unknown chunk id is yielded and no panic happens.
C10_ChunkOrder ==
    /\ result.kind # "panic"
    /\ Planned =>
        /\ PlannedIds = <<PNAM, OIDF, OIDL, OOFF>>
                        \o (IF num_large_offsets # <<>> THEN <<LOFF>> ELSE <<>>)
        /\ Len(cf) \in {4, 5}
        /\ \A k \in 1..Len(cf) : cf[k].id \in KnownChunkIds
        /\ \A k \in 1..Len(out) :
            out[k].part = IF k = 1 THEN HeaderPart
                          ELSE IF k = 2 THEN TocPart
                          ELSE IF k - 2 <= Len(cf) THEN cf[k - 2].id
                          ELSE TrailerPart
        /\ Len(out) <= Len(cf) + 3
        /\ (out # <<>> /\ Len(out[1].bytes) = HEADER_LEN) => out[1].bytes[7] = Len(cf)
        /\ chunk_idx > 0 => Len(out) >= chunk_idx + 2

\* All five chunks were written, in order.
C10_Witness ==
    /\ pc = "chunks"
    /\ chunk_idx = 5
    /\ [k \in 1..Len(out) |-> out[k].part] = <<HeaderPart, TocPart, PNAM, OIDF, OIDL, OOFF, LOFF>>

----------------------------------------------------------------------------
(* Properties of the index decoder *)

\* C7: from_bytes returns the header error for a buffer with an invalid header,
\* with no extension examined, and a State with the decoded version and the
\* given timestamp for every buffer with a valid header.
C7_FromBytesReturns ==
    dpc = "done" =>
        IF header_decode(data, HashLen).kind = "Ok"
        THEN dresult = [kind |-> "State", timestamp |-> timestamp,
                        version |-> header_decode(data, HashLen).version]
        ELSE dresult = [kind |-> "Err", header |-> header_decode(data, HashLen)]

\* C8: header::decode gives Corrupt for a buffer shorter than 12 bytes plus the
\* hash width, else Corrupt for a wrong signature, else UnsupportedVersion(n) for
\* a version other than 2, 3 and 4, else the version, the entry count of bytes
\* 8..12 and the buffer from byte 12 on.
C8_HeaderDecode ==
    dpc \notin { "idle", "header" } =>
        IF Len(data) < 12 + HashLen
        THEN dheader = [kind |-> "Corrupt", message |-> TooSmall]
        ELSE IF << data[1], data[2], data[3], data[4] >> # <<68, 73, 82, 67>>
        THEN dheader = [kind |-> "Corrupt", message |-> SignatureMismatch]
        ELSE IF ~(data[5] = 0 /\ data[6] = 0 /\ data[7] = 0 /\ data[8] \in {2, 3, 4})
        THEN /\ dheader.kind = "UnsupportedVersion"
             /\ dheader.version = << data[5] * 256 + data[6], data[7] * 256 + data[8] >>
        ELSE /\ dheader.kind = "Ok"
             /\ dheader.version = (IF data[8] = 2 THEN "V2" ELSE IF data[8] = 3 THEN "V3" ELSE "V4")
             /\ dheader.entries = << data[9] * 256 + data[10], data[11] * 256 + data[12] >>
             /\ dheader.data = [k \in 1..(Len(data) - 12) |-> data[k + 12]]

\* A version 3 header with one entry was decoded.
C8_Witness ==
    /\ dpc = "end_of_index_entry"
    /\ dheader.kind = "Ok"
    /\ dheader.version = "V3"
    /\ dheader.entries = <<0, 1>>
    /\ Len(dheader.data) = HashLen + 1

====
